---- MODULE Spec2Model ----
(***************************************************************************)
(* Model of src/weather_fetcher.py: the per-city CSV store, the gap        *)
(* detector (get_missing_hours) and the fetch orchestrator                 *)
(* (fetch_city_data, fetch_missing_data, fetch_latest_hour).               *)
(*                                                                         *)
(* Time is counted in ticks, TicksPerHour ticks to the hour.  A datetime   *)
(* is a record [hour, minute]: hour counts whole hours since the epoch,    *)
(* minute the ticks past the hour.  A Unix timestamp is a tick count.      *)
(* The two HTTP services are the environment: every call returns one of    *)
(* the outcomes the code distinguishes, chosen nondeterministically.       *)
(***************************************************************************)
EXTENDS Integers, Sequences, FiniteSets, TLC

\* ---- bounds of the model ----
TicksPerHour == 2
MaxClock == 2
MaxHoursBack == 2
MaxRuns == 2
MaxFaults == 2
GapMaxHours == 3
GapMaxRows == 2

\* ---- the city registry (CITIES, in dict order) ----
CITIES == <<"Cape Town", "Kigali", "Kampala">>

CityNames == {CITIES[i] : i \in 1..Len(CITIES)}

VARIABLES
    clock,          \* wall clock, in ticks (datetime.now)
    file,           \* city -> [exists, lines]: the CSV file of the city
    entry,          \* the entry point that is running, or "none"
    max_hours_back, \* argument of fetch_missing_data
    latest_hour,    \* local of fetch_latest_hour
    city,           \* position of the loop over CITIES
    pc,             \* position of the run for the current city
    now,            \* the clock value get_missing_hours / fetch_latest_hour read
    target_times,   \* argument of fetch_city_data
    coords,         \* lat, lon of fetch_city_data: "unset", "ok", or "raised"
    k,              \* position of the loop over target_times
    new_records,    \* local of fetch_city_data
    geocode_calls,  \* requests sent to the geocoding endpoint in this city's run
    weather_calls,  \* timestamps sent to the weather endpoint in this city's run
    responses,      \* what the weather endpoint answered, call by call
    save_calls,     \* calls of save_to_csv in this city's run
    store_before,   \* the city's file when its run began
    runs,           \* completed entry-point calls
    faults          \* answers of the two endpoints other than the expected one, so far

vars == <<clock, file, entry, max_hours_back, latest_hour, city, pc, now,
          target_times, coords, k, new_records, geocode_calls, weather_calls,
          responses, save_calls, store_before, runs, faults>>

\* ---- datetime ----
fromtimestamp(ts) == [hour |-> ts \div TicksPerHour, minute |-> ts % TicksPerHour]

timestamp(d) == d.hour * TicksPerHour + d.minute

minus_hours(d, i) == [hour |-> d.hour - i, minute |-> d.minute]

floor_to_hour(d) == [hour |-> d.hour, minute |-> 0]

isoformat(d) == <<d.hour, d.minute>>

to_datetime(s) == [hour |-> s[1], minute |-> s[2]]

\* ---- the CSV file ----
NoFile == [exists |-> FALSE, lines |-> <<>>]

\* A line of the file: the header row, or a data row carrying the text of its
\* timestamp field (temperature and humidity are payload the model leaves out).
HeaderRow == [kind |-> "header", timestamp |-> <<>>]

IsHeader(line) == line.kind = "header"

DataRow(record) == [kind |-> "row", timestamp |-> isoformat(record.timestamp)]

\* pd.read_csv: the first line names the columns, the rest are the rows; an
\* empty file, or a first line that is no header, raises and the frame is empty.
load_existing_data(f) ==
    IF f.exists
    THEN IF Len(f.lines) > 0 /\ IsHeader(f.lines[1])
         THEN [i \in 1..(Len(f.lines) - 1) |-> [timestamp |-> to_datetime(f.lines[i + 1].timestamp)]]
         ELSE <<>>
    ELSE <<>>

data_exists(existing_df, ts) ==
    IF existing_df = <<>>
    THEN FALSE
    ELSE \E i \in 1..Len(existing_df) : existing_df[i].timestamp = ts

RowsOf(data_records) == [i \in 1..Len(data_records) |-> DataRow(data_records[i])]

\* Variant: the header is written on every call.
save_to_csv_always_header(f, data_records) ==
    IF data_records = <<>>
    THEN f
    ELSE [exists |-> TRUE, lines |-> f.lines \o <<HeaderRow>> \o RowsOf(data_records)]

\* Variant: the file is opened in write mode, not append mode.
save_to_csv_truncating(f, data_records) ==
    IF data_records = <<>>
    THEN f
    ELSE [exists |-> TRUE, lines |-> <<HeaderRow>> \o RowsOf(data_records)]

save_to_csv(f, data_records) ==
    IF data_records = <<>>
    THEN f
    ELSE [exists |-> TRUE,
          lines  |-> f.lines
                     \o (IF f.exists THEN <<>> ELSE <<HeaderRow>>)
                     \o RowsOf(data_records)]

\* ---- the gap detector ----
RECURSIVE missing_from(_, _, _, _)
missing_from(existing_df, t, i, hours_back) ==
    IF i > hours_back
    THEN <<>>
    ELSE LET target_hour == floor_to_hour(minus_hours(t, i))
         IN (IF data_exists(existing_df, target_hour) THEN <<>> ELSE <<target_hour>>)
            \o missing_from(existing_df, t, i + 1, hours_back)

\* Variant: range(0, hours_back) in place of range(1, hours_back + 1).
get_missing_hours_from_zero(f, t, hours_back) ==
    missing_from(load_existing_data(f), fromtimestamp(t), 0, hours_back - 1)

get_missing_hours(f, t, hours_back) ==
    missing_from(load_existing_data(f), fromtimestamp(t), 1, hours_back)

\* ---- the weather endpoint ----
NoDatetime == [hour |-> 0, minute |-> 0]

HttpError == [kind |-> "error", dt |-> 0]

NoData == [kind |-> "no_data", dt |-> 0]

\* What get_historical_weather can bring back for a request of timestamp ts: a
\* data entry whose dt is the requested one or, while the endpoints may still
\* misbehave, an exception, a payload without data entries, or a data entry
\* whose dt is the hour before the requested one.
Expected(ts) == [kind |-> "data", dt |-> ts]

WeatherResponses(ts) ==
    {Expected(ts)}
    \cup (IF faults < MaxFaults
          THEN {HttpError, NoData} \cup {[kind |-> "data", dt |-> d] : d \in {ts - TicksPerHour}}
          ELSE {})

\* What get_city_coordinates can do: return, or raise (no match, HTTP error).
GeocodingResponses ==
    {"ok"} \cup (IF faults < MaxFaults THEN {"not_found", "http_error"} ELSE {})

\* None is the empty sequence, a record the one-element sequence.
extract_hourly_data(weather_data, target_timestamp) ==
    IF weather_data.kind = "data"
    THEN <<[timestamp |-> fromtimestamp(weather_data.dt)]>>
    ELSE <<>>

\* The body of the loop over target_times: the records gathered after one hour.
records_after_hour(records, weather_data, target_timestamp) ==
    IF weather_data.kind = "error"
    THEN records
    ELSE records \o extract_hourly_data(weather_data, target_timestamp)

\* Variant: no try/except around one hour, so an error ends the city's batch.
after_hour_abort(weather_data, i, n) ==
    IF weather_data.kind = "error"
    THEN "FAILED"
    ELSE IF i = n THEN "APPENDING" ELSE "FETCHING_HOUR"

\* Where fetch_city_data goes after one hour: on to the next, or out of the loop.
after_hour(weather_data, i, n) ==
    IF i = n THEN "APPENDING" ELSE "FETCHING_HOUR"

\* Variant: the hours are fetched although get_city_coordinates raised.
after_coordinates_ignoring(outcome) == "FETCHING_HOUR"

\* Variant: get_city_coordinates is called again after it raised.
after_coordinates_retrying(outcome) ==
    IF outcome = "ok" THEN "FETCHING_HOUR" ELSE "RESOLVING_COORDS"

\* Where fetch_city_data goes after get_city_coordinates.
after_coordinates(outcome) ==
    IF outcome = "ok" THEN "FETCHING_HOUR" ELSE "FAILED"

\* fetch_latest_hour: the hour it targets, and what it hands to fetch_city_data.
latest_hour_of(t) == floor_to_hour(minus_hours(fromtimestamp(t), 1))

\* Variant: no data_exists check before fetch_city_data.
latest_targets_unchecked(f, hour) == <<hour>>

latest_targets(f, hour) ==
    IF data_exists(load_existing_data(f), hour) THEN <<>> ELSE <<hour>>

\* ---- state ----
Init ==
    /\ clock = 0
    /\ file = [c \in CityNames |-> NoFile]
    /\ entry = "none"
    /\ max_hours_back = 0
    /\ latest_hour = NoDatetime
    /\ city = 1
    /\ pc = "IDLE"
    /\ now = 0
    /\ target_times = <<>>
    /\ coords = "unset"
    /\ k = 1
    /\ new_records = <<>>
    /\ geocode_calls = 0
    /\ weather_calls = <<>>
    /\ responses = <<>>
    /\ save_calls = 0
    /\ store_before = NoFile
    /\ runs = 0
    /\ faults = 0

\* Time passes.  The code reads the clock in get_missing_hours (once per city)
\* and at the top of fetch_latest_hour only, so the time that passes during a
\* city's HTTP calls is accounted for here, before the next read.
Tick ==
    /\ pc = "IDLE"
    /\ clock < MaxClock
    /\ clock' = clock + 1
    /\ UNCHANGED <<file, entry, max_hours_back, latest_hour, city, pc, now,
                   target_times, coords, k, new_records, geocode_calls, weather_calls,
                   responses, save_calls, store_before, runs, faults>>

Call_fetch_missing_data(n) ==
    /\ entry = "none"
    /\ runs < MaxRuns
    /\ entry' = "fetch_missing_data"
    /\ max_hours_back' = n
    /\ city' = 1
    /\ UNCHANGED <<clock, file, latest_hour, pc, now, target_times, coords, k, new_records,
                   geocode_calls, weather_calls, responses, save_calls,
                   store_before, runs, faults>>

Call_fetch_latest_hour ==
    /\ entry = "none"
    /\ runs < MaxRuns
    /\ entry' = "fetch_latest_hour"
    /\ now' = clock
    /\ latest_hour' = latest_hour_of(clock)
    /\ city' = 1
    /\ UNCHANGED <<clock, file, max_hours_back, pc, target_times, coords, k, new_records,
                   geocode_calls, weather_calls, responses, save_calls,
                   store_before, runs, faults>>

\* One turn of the loop over CITIES, up to the call of get_city_coordinates.
StartCity(times) ==
    /\ target_times' = times
    /\ store_before' = file[CITIES[city]]
    /\ pc' = IF times = <<>> THEN "DONE" ELSE "RESOLVING_COORDS"
    /\ UNCHANGED <<clock, file, entry, max_hours_back, latest_hour, city, coords, k,
                   new_records, geocode_calls, weather_calls, responses,
                   save_calls, runs, faults>>

PlanCity ==
    /\ entry = "fetch_missing_data"
    /\ pc = "IDLE"
    /\ now' = clock
    /\ StartCity(get_missing_hours(file[CITIES[city]], clock, max_hours_back))

PlanCityLatest ==
    /\ entry = "fetch_latest_hour"
    /\ pc = "IDLE"
    /\ now' = now
    /\ StartCity(latest_targets(file[CITIES[city]], latest_hour))

ResolveCoords(outcome) ==
    /\ pc = "RESOLVING_COORDS"
    /\ geocode_calls' = geocode_calls + 1
    /\ coords' = IF outcome = "ok" THEN "ok" ELSE "raised"
    /\ pc' = after_coordinates(outcome)
    /\ faults' = IF outcome = "ok" THEN faults ELSE faults + 1
    /\ UNCHANGED <<clock, file, entry, max_hours_back, latest_hour, city, now,
                   target_times, k, new_records, weather_calls, responses,
                   save_calls, store_before, runs>>

FetchHour ==
    /\ pc = "FETCHING_HOUR"
    /\ k <= Len(target_times)
    /\ LET ts == timestamp(target_times[k])
       IN \E weather_data \in WeatherResponses(ts) :
            /\ weather_calls' = Append(weather_calls, ts)
            /\ responses' = Append(responses, weather_data)
            /\ new_records' = records_after_hour(new_records, weather_data, ts)
            /\ faults' = IF weather_data = Expected(ts) THEN faults ELSE faults + 1
            /\ pc' = after_hour(weather_data, k, Len(target_times))
    /\ k' = k + 1
    /\ UNCHANGED <<clock, file, entry, max_hours_back, latest_hour, city, now,
                   target_times, coords, geocode_calls, save_calls, store_before, runs>>

SaveRecords ==
    /\ pc = "APPENDING"
    /\ IF new_records # <<>>
       THEN /\ file' = [file EXCEPT ![CITIES[city]] = save_to_csv(@, new_records)]
            /\ save_calls' = save_calls + 1
       ELSE UNCHANGED <<file, save_calls>>
    /\ pc' = "DONE"
    /\ UNCHANGED <<clock, entry, max_hours_back, latest_hour, city, now,
                   target_times, coords, k, new_records, geocode_calls, weather_calls,
                   responses, store_before, runs, faults>>

NextCity ==
    /\ pc \in {"DONE", "FAILED"}
    /\ pc' = "IDLE"
    /\ target_times' = <<>>
    /\ coords' = "unset"
    /\ k' = 1
    /\ new_records' = <<>>
    /\ geocode_calls' = 0
    /\ weather_calls' = <<>>
    /\ responses' = <<>>
    /\ save_calls' = 0
    /\ store_before' = NoFile
    /\ IF city < Len(CITIES)
       THEN /\ city' = city + 1
            /\ now' = IF entry = "fetch_latest_hour" THEN now ELSE 0
            /\ UNCHANGED <<entry, max_hours_back, latest_hour, runs>>
       ELSE /\ city' = 1
            /\ entry' = "none"
            /\ max_hours_back' = 0
            /\ latest_hour' = NoDatetime
            /\ now' = 0
            /\ runs' = runs + 1
    /\ UNCHANGED <<clock, file, faults>>

Next ==
    \/ Tick
    \/ \E n \in 0..MaxHoursBack : Call_fetch_missing_data(n)
    \/ Call_fetch_latest_hour
    \/ PlanCity
    \/ PlanCityLatest
    \/ \E outcome \in GeocodingResponses : ResolveCoords(outcome)
    \/ FetchHour
    \/ SaveRecords
    \/ NextCity

Spec == Init /\ [][Next]_vars

\* Every HTTP call returns and the process is scheduled: a started run goes on.
Run == PlanCity \/ PlanCityLatest \/ (\E outcome \in GeocodingResponses : ResolveCoords(outcome))
       \/ FetchHour \/ SaveRecords \/ NextCity

FairSpec == Spec /\ WF_vars(Run)

\* ---- get_missing_hours on arbitrary inputs ----
\* Any store of at most GapMaxRows rows (duplicates and off-hour timestamps
\* included) or no file at all, any clock value, any hours_back.
GapDatetimes ==
    {[hour |-> h, minute |-> m] :
        h \in (0 - GapMaxHours)..(MaxClock \div TicksPerHour), m \in 0..(TicksPerHour - 1)}

RECURSIVE SeqsUpTo(_, _)
SeqsUpTo(S, n) ==
    IF n = 0
    THEN {<<>>}
    ELSE LET shorter == SeqsUpTo(S, n - 1)
         IN shorter \cup {Append(q, x) : q \in shorter, x \in S}

GapStores ==
    {NoFile}
    \cup {[exists |-> TRUE, lines |-> <<HeaderRow>> \o RowsOf([i \in 1..Len(q) |-> [timestamp |-> q[i]]])] :
            q \in SeqsUpTo(GapDatetimes, GapMaxRows)}

GapInit ==
    /\ clock \in 0..MaxClock
    /\ file \in {[c \in CityNames |-> IF c = CITIES[1] THEN f ELSE NoFile] : f \in GapStores}
    /\ entry = "fetch_missing_data"
    /\ max_hours_back \in 0..GapMaxHours
    /\ latest_hour = NoDatetime
    /\ city = 1
    /\ pc = "IDLE"
    /\ now = 0
    /\ target_times = <<>>
    /\ coords = "unset"
    /\ k = 1
    /\ new_records = <<>>
    /\ geocode_calls = 0
    /\ weather_calls = <<>>
    /\ responses = <<>>
    /\ save_calls = 0
    /\ store_before = NoFile
    /\ runs = 0
    /\ faults = 0

GapSpec == GapInit /\ [][PlanCity]_vars

\* ---- what the claims speak of ----
current == CITIES[city]

Records(f) == load_existing_data(f)

IsPrefix(a, b) == Len(a) <= Len(b) /\ SubSeq(b, 1, Len(a)) = a

\* The records this city's run has added to its store.
Appended ==
    SubSeq(Records(file[current]), Len(Records(store_before)) + 1, Len(Records(file[current])))

NoDuplicates(q) == \A i, j \in 1..Len(q) : i # j => q[i] # q[j]

Member(x, q) == \E i \in 1..Len(q) : q[i] = x

\* The start of the hour that lies i hours before the hour of t, as a timestamp.
HourStart(t, i) == (t - (t % TicksPerHour)) - i * TicksPerHour

\* Whether a well-formed file holds a row for the hour that starts at timestamp h.
HoldsHour(f, h) ==
    /\ f.exists
    /\ \E j \in 2..Len(f.lines) :
         f.lines[j].timestamp = <<h \div TicksPerHour, h % TicksPerHour>>

InRun == pc \in {"RESOLVING_COORDS", "FETCHING_HOUR", "APPENDING", "DONE", "FAILED"}

\* C1: every city's store holds at most one record per distinct timestamp, after
\* any sequence of fetch_missing_data and fetch_latest_hour runs from empty stores.
C1_OneRecordPerTimestamp ==
    \A c \in CityNames : NoDuplicates(Records(file[c]))

\* C2: get_missing_hours returns the hour starts floor(now) - i hours, i = 1..N in
\* increasing i, keeping exactly those with no stored record of that timestamp;
\* so at most N entries, each on an hour boundary and before the current hour.
C2_MissingHours ==
    InRun =>
      LET kept == {i \in 1..max_hours_back : ~HoldsHour(store_before, HourStart(now, i))}
      IN /\ Len(target_times) = Cardinality(kept)
         /\ Len(target_times) <= max_hours_back
         /\ \A i \in kept :
              timestamp(target_times[Cardinality({j \in kept : j <= i})]) = HourStart(now, i)
         /\ \A j \in 1..Len(target_times) :
              /\ target_times[j].minute = 0
              /\ timestamp(target_times[j]) < HourStart(now, 0)
         /\ \A j \in 1..(Len(target_times) - 1) :
              timestamp(target_times[j]) > timestamp(target_times[j + 1])

\* now = a tick past the hour, N = 3, the store holds only the hour two hours
\* back: the result is <<one hour back, three hours back>>.
C2_Witness ==
    /\ InRun
    /\ max_hours_back = 3
    /\ now % TicksPerHour = 1
    /\ Len(Records(store_before)) = 1
    /\ timestamp(Records(store_before)[1].timestamp) = HourStart(now, 2)
    /\ Len(target_times) = 2
    /\ timestamp(target_times[1]) = HourStart(now, 1)
    /\ timestamp(target_times[2]) = HourStart(now, 3)

\* The records the answers received so far carry, one per answer with data.
DataResponses == SelectSeq(responses, LAMBDA r : r.kind = "data")

RecordsOfResponses ==
    [i \in 1..Len(DataResponses) |->
        [timestamp |-> [hour |-> DataResponses[i].dt \div TicksPerHour,
                        minute |-> DataResponses[i].dt % TicksPerHour]]]

\* C3: once coordinates resolve, an error or a no-data answer for one hour adds no
\* record and never stops the remaining hours from being fetched: the hours are
\* requested one by one in the order of target_times, the run is never failed by
\* an hour, and what the run appends is exactly one record per answer with data,
\* in the order of the requests.
C3_PerHourFailuresSkipped ==
    /\ InRun =>
         /\ Len(weather_calls) = k - 1
         /\ Len(responses) = k - 1
         /\ \A i \in 1..Len(weather_calls) : weather_calls[i] = timestamp(target_times[i])
         /\ new_records = RecordsOfResponses
    /\ coords = "ok" /\ pc \in {"APPENDING", "DONE", "FAILED"} =>
         /\ pc # "FAILED"
         /\ Len(weather_calls) = Len(target_times)
    /\ pc = "DONE" => Appended = RecordsOfResponses

C3_Witness ==
    /\ pc = "DONE"
    /\ Len(responses) = 2
    /\ responses[1].kind # "data"
    /\ responses[2].kind = "data"
    /\ Len(Appended) = 1

C4_State ==
    coords = "raised" =>
        /\ pc = "FAILED"
        /\ geocode_calls = 1
        /\ weather_calls = <<>>
        /\ save_calls = 0
        /\ file[current] = store_before

C4_Step ==
    coords = "raised" =>
        /\ file' = file
        /\ pc' = "IDLE"
        /\ city < Len(CITIES) => (city' = city + 1 /\ entry' = entry)
        /\ city = Len(CITIES) => (entry' = "none" /\ runs' = runs + 1)

\* C4: when coordinate resolution raises, no weather request is made for the
\* city, its store is left as it was, and the loop over CITIES goes on to the
\* next city of the same run.
C4_CoordinateFailureIsPerCity == []C4_State /\ [][C4_Step]_vars

C4_Witness ==
    /\ coords = "raised"
    /\ city = 1
    /\ target_times # <<>>
    /\ entry = "fetch_missing_data"

\* C5: an hour whose fetch raised or returned no data is requested once in the
\* run, is absent from the store after the run, and is again among the missing
\* hours of any later call whose trailing window still covers it.
C5_SkippedHourStaysMissing ==
    pc = "DONE" =>
      \A i \in 1..Len(responses) :
        responses[i].kind # "data" =>
          /\ Cardinality({j \in 1..Len(weather_calls) : weather_calls[j] = weather_calls[i]}) = 1
          /\ ~data_exists(Records(file[current]), target_times[i])
          /\ \A t \in clock..MaxClock, n \in 0..MaxHoursBack :
               (\E d \in 1..n : timestamp(target_times[i]) = HourStart(t, d))
                 => Member(target_times[i], get_missing_hours(file[current], t, n))

\* The moves of one city's run, in the order of the orchestrator's state machine.
RunMoves ==
    {<<"IDLE", "RESOLVING_COORDS">>, <<"IDLE", "DONE">>,
     <<"RESOLVING_COORDS", "FETCHING_HOUR">>, <<"RESOLVING_COORDS", "FAILED">>,
     <<"FETCHING_HOUR", "FETCHING_HOUR">>, <<"FETCHING_HOUR", "APPENDING">>,
     <<"APPENDING", "DONE">>, <<"DONE", "IDLE">>, <<"FAILED", "IDLE">>}

C6_Order ==
    /\ geocode_calls <= 1
    /\ save_calls <= 1
    /\ pc \in {"IDLE", "RESOLVING_COORDS"} => geocode_calls = 0
    /\ pc \in {"FETCHING_HOUR", "APPENDING"} \/ (pc = "DONE" /\ target_times # <<>>) =>
         geocode_calls = 1 /\ coords = "ok"
    /\ weather_calls # <<>> => geocode_calls = 1 /\ coords = "ok"
    /\ pc \in {"RESOLVING_COORDS", "FETCHING_HOUR", "APPENDING", "FAILED"} =>
         save_calls = 0 /\ file[current] = store_before
    /\ save_calls = 1 => Len(weather_calls) = Len(target_times)
    /\ pc = "DONE" => Len(weather_calls) = Len(target_times)
    /\ InRun /\ file[current] # store_before => save_calls = 1
    /\ InRun /\ target_times = <<>> =>
         /\ pc = "DONE"
         /\ geocode_calls = 0
         /\ weather_calls = <<>>
         /\ save_calls = 0
         /\ file[current] = store_before

C6_Move ==
    /\ pc' = pc \/ <<pc, pc'>> \in RunMoves
    /\ pc = "IDLE" /\ pc' = "DONE" => target_times' = <<>>
    /\ pc = "IDLE" /\ pc' = "RESOLVING_COORDS" => target_times' # <<>>
    /\ pc # "IDLE" /\ pc' # "IDLE" => target_times' = target_times
    /\ pc # "APPENDING" => file' = file

\* C6: a city's run goes IDLE, RESOLVING_COORDS, FETCHING_HOUR (once per missing
\* hour), APPENDING, DONE, or stops at RESOLVING_COORDS, FAILED: coordinates are
\* resolved once and before any hourly request, the store is appended to at most
\* once and only after every missing hour was requested, and every run ends;
\* a run with no missing hour resolves nothing, requests nothing, appends nothing.
C6_RunStateMachine ==
    /\ []C6_Order
    /\ [][C6_Move]_vars
    /\ (pc # "IDLE") ~> (pc = "IDLE")
    /\ (entry # "none") ~> (entry = "none")

C6_Witness ==
    /\ pc = "DONE"
    /\ Len(target_times) = 2
    /\ geocode_calls = 1
    /\ Len(weather_calls) = 2
    /\ save_calls = 1
    /\ city = 2

HeaderRows(f) == {i \in 1..Len(f.lines) : IsHeader(f.lines[i])}

\* C7: a file that does not exist is not created by loading it; the first append
\* of records creates it with the header row as its first line; no later append
\* writes a header: an existing file has exactly one header row, at the top.
C7_HeaderOnce ==
    /\ load_existing_data(NoFile) = <<>>
    /\ \A c \in CityNames :
         /\ ~file[c].exists => file[c].lines = <<>>
         /\ file[c].exists => HeaderRows(file[c]) = {1} /\ Len(file[c].lines) >= 2
    /\ pc \in {"RESOLVING_COORDS", "FETCHING_HOUR", "APPENDING", "FAILED"} =>
         file[current] = store_before
    /\ pc = "DONE" /\ ~store_before.exists /\ new_records # <<>> =>
         file[current].lines = <<HeaderRow>> \o RowsOf(new_records)
    /\ pc = "DONE" /\ store_before.exists =>
         file[current].lines = store_before.lines \o RowsOf(new_records)

C7_Witness ==
    /\ pc = "DONE"
    /\ store_before.exists
    /\ new_records # <<>>
    /\ Len(file[current].lines) = Len(store_before.lines) + Len(new_records)
    /\ HeaderRows(file[current]) = {1}

C8_Step ==
    /\ \A c \in CityNames : IsPrefix(Records(file[c]), Records(file'[c]))
    /\ \A c \in CityNames : file[c].exists => file'[c].exists
    /\ pc # "APPENDING" => file' = file

\* C8: the store is append-only: every step leaves each store's record sequence
\* a prefix of what it is afterwards, and only the append of a run changes a
\* store (load, data_exists and get_missing_hours change nothing).
C8_AppendOnly == [][C8_Step]_vars

C8_Witness ==
    /\ pc = "DONE"
    /\ Len(Records(store_before)) >= 1
    /\ Len(Records(file[current])) > Len(Records(store_before))
    /\ IsPrefix(Records(store_before), Records(file[current]))
    /\ entry = "fetch_missing_data"

\* C9: fetch_latest_hour targets the one hour that starts at floor(now) - 1 hour,
\* for every city: a city whose store holds a record of exactly that timestamp
\* gets no coordinate lookup, no weather request and no change of its store; any
\* other city gets the fetch_city_data flow for that single hour and at most one
\* new record.
C9_LatestHourOnly ==
    entry = "fetch_latest_hour" =>
        /\ timestamp(latest_hour) = HourStart(now, 1)
        /\ latest_hour.minute = 0
        /\ InRun =>
             IF HoldsHour(store_before, HourStart(now, 1))
             THEN /\ target_times = <<>>
                  /\ pc = "DONE"
                  /\ geocode_calls = 0
                  /\ weather_calls = <<>>
                  /\ file[current] = store_before
             ELSE /\ target_times = <<latest_hour>>
                  /\ \A i \in 1..Len(weather_calls) : weather_calls[i] = HourStart(now, 1)
                  /\ Len(weather_calls) <= 1
                  /\ Len(Records(file[current])) <= Len(Records(store_before)) + 1
                  /\ IsPrefix(Records(store_before), Records(file[current]))

C9_Witness ==
    /\ entry = "fetch_latest_hour"
    /\ pc = "DONE"
    /\ HoldsHour(store_before, HourStart(now, 1))
    /\ target_times = <<>>
    /\ city = 3

\* C10: every record a run appends has the timestamp of one of the hours the run
\* requested, and no two records of one run share a timestamp.
C10_AppendedAreRequestedHours ==
    pc = "DONE" =>
        /\ \A i \in 1..Len(Appended) : Member(Appended[i].timestamp, target_times)
        /\ NoDuplicates(Appended)

====
